---- MODULE Spec2Model ----
(***************************************************************************)
(* Model of the SSOWithRedirectURL screen                                  *)
(* (src/app/screens/sso/sso_with_redirect_url.tsx): the PKCE redirect      *)
(* flow made of init (verifier, challenge, browser launch), the Linking    *)
(* 'url' listener effect keyed on codeVerifier, the 1000 ms auto-attempt   *)
(* timer effect and the "Try again" button.                                *)
(*                                                                         *)
(* Every await of the source is a separate step: other events of the       *)
(* single JS thread may run between the call and its continuation.  The    *)
(* re-run of the listener effect after setCodeVerifier is a step of its    *)
(* own too (effects run after the render that follows the state update).   *)
(***************************************************************************)
EXTENDS Naturals, Sequences, FiniteSets, TLC

VARIABLES
    mountLoginError, \* the loginError prop at mount (history, never changes)
    loginError,      \* the loginError prop (owned by the parent)
    error,           \* useState<string>('')
    codeVerifier,    \* useState<string>() : the stored verifier
    listener,        \* the Linking registration and the verifier it closed over
    timer,           \* the auto-attempt timeout: "pending", "fired", "cleared"
    mounted,         \* whether the screen is still mounted
    started,         \* how many times init has been called
    inits,           \* the init calls suspended at an await
    delivered,       \* how many URL-open events the platform has delivered
    pending,         \* the onURLChange calls suspended at the exchange
    loggedIn,        \* the stored verifiers under which doSSOLogin was called
    obs              \* what the most recent step did (calls made, arguments)

vars == <<mountLoginError, loginError, error,
          codeVerifier, listener, timer, mounted, started, inits, delivered,
          pending, loggedIn, obs>>

---------------------------------------------------------------------------
(* Bounds *)

\* how many times init may be called in one run (timer + Try again presses)
MaxInits == 2

\* how many URL-open events the platform delivers in one run
MaxEvents == 2

---------------------------------------------------------------------------
(* Values *)

\* JS undefined for a string-valued expression: no string at all
Undef == <<>>

\* a JS string value, kept apart from undefined whatever its text is
Str(s) == <<s>>

\* useState<string>() before any setCodeVerifier
NoVerifier == <<>>

\* the value generateSecureRandom(100) draws in the i-th call of init: no two
\* calls draw the same 100 bytes
Verifier(i) == <<i>>

\* a value is truthy in JS: neither undefined nor the empty string
Truthy(x) == x # Undef /\ x # Str("")

\* the verifier is truthy: a non-empty string
TruthyVerifier(v) == v # NoVerifier

\* @utils/general isBetaApp: a constant of the build; the pre-release build is
\* modelled (the production build differs in the scheme's name alone)
isBetaApp == TRUE

\* Sso.REDIRECT_URL_SCHEME / Sso.REDIRECT_URL_SCHEME_DEV
customUrlScheme == IF isBetaApp THEN "mmauth-beta://" ELSE "mmauth://"

\* const redirectUrl = customUrlScheme + 'callback'
redirectUrl == <<customUrlScheme, "callback">>

\* String.prototype.startsWith on tokenised strings
StartsWith(s, prefix) ==
    /\ Len(s) >= Len(prefix)
    /\ SubSeq(s, 1, Len(prefix)) = prefix

\* a variant that accepts every non-empty URL
MatchesAny(url) == url # <<>>

\* url && url.startsWith(redirectUrl)
Matches(url) == url # <<>> /\ StartsWith(url, redirectUrl)

\* index of the "?" token of a tokenised URL, 0 when there is none
QueryStart(url) ==
    IF \E i \in 1..Len(url) : url[i] = "?"
    THEN CHOOSE i \in 1..Len(url) :
            url[i] = "?" /\ \A j \in 1..(i - 1) : url[j] # "?"
    ELSE 0

\* urlParse(url, true).query?.[key]: the first value given for the key
QueryGet(url, key) ==
    LET q == QueryStart(url)
        n == IF q = 0 THEN 0 ELSE (Len(url) - q) \div 2
        hits == {k \in 1..n : url[q + 2 * k - 1] = key}
    IN IF hits = {} THEN Undef
       ELSE LET k == CHOOSE h \in hits : \A g \in hits : h <= g
            IN Str(url[q + 2 * k])

\* react-native-sha256
Sha256(v) == [alg |-> "sha256", of |-> v]

\* @utils/security urlSafeBase64Encode
urlSafeBase64Encode(h) == [enc |-> "base64url", of |-> h]

\* the query of the loginUrl prop
LoginUrlQuery == [client_id |-> "abc"]

\* the login URL init builds: loginUrl's query plus redirect_to and code_challenge
BuildLoginUrl(hash) ==
    [base |-> "https://example.com/oauth/authorize",
     query |-> [k \in DOMAIN LoginUrlQuery \cup {"redirect_to", "code_challenge"} |->
                  IF k = "redirect_to" THEN [str |-> redirectUrl]
                  ELSE IF k = "code_challenge" THEN urlSafeBase64Encode(hash)
                  ELSE [str |-> <<LoginUrlQuery[k]>>]]]

\* the localized messages
FailedToOpenNoBrowser == "The link failed to open. Please verify that a browser is installed on the device."
FailedToOpen == "The link failed to open. Please try again."
FailedToLogin == "Your login attempt failed. Please try again."

\* the letters, for case-insensitive matching
UpperLetters ==
    <<"A", "B", "C", "D", "E", "F", "G", "H", "I", "J", "K", "L", "M", "N",
      "O", "P", "Q", "R", "S", "T", "U", "V", "W", "X", "Y", "Z">>

LowerLetters ==
    <<"a", "b", "c", "d", "e", "f", "g", "h", "i", "j", "k", "l", "m", "n",
      "o", "p", "q", "r", "s", "t", "u", "v", "w", "x", "y", "z">>

\* each upper-case letter's lower-case form
FoldCase ==
    [c \in {UpperLetters[k] : k \in 1..Len(UpperLetters)} |->
        LowerLetters[CHOOSE k \in 1..Len(UpperLetters) : UpperLetters[k] = c]]

\* a character with its case folded, as the regex flag i compares it
Lower(c) == IF c \in DOMAIN FoldCase THEN FoldCase[c] ELSE c

\* the text of the pattern /no activity found to handle intent/i, by character
NoActivityPattern ==
    <<"n", "o", " ", "a", "c", "t", "i", "v", "i", "t", "y", " ", "f", "o",
      "u", "n", "d", " ", "t", "o", " ", "h", "a", "n", "d", "l", "e", " ",
      "i", "n", "t", "e", "n", "t">>

\* the message Android gives when no app handles the intent, by character
NoActivityMessage ==
    <<"E", "r", "r", "o", "r", ":", " ", "N", "o", " ", "A", "c", "t", "i",
      "v", "i", "t", "y", " ", "f", "o", "u", "n", "d", " ", "t", "o", " ",
      "h", "a", "n", "d", "l", "e", " ", "I", "n", "t", "e", "n", "t", " ",
      "{", " ", "a", "c", "t", "=", "a", "n", "d", "r", "o", "i", "d", ".",
      "i", "n", "t", "e", "n", "t", ".", "a", "c", "t", "i", "o", "n", ".",
      "V", "I", "E", "W", " ", "}">>

\* the message of some other failure, by character
OtherFailureMessage ==
    <<"U", "n", "a", "b", "l", "e", " ", "t", "o", " ", "o", "p", "e", "n",
      " ", "U", "R", "L">>

\* what Linking.openURL may do: resolve, or reject with an error of this message
OpenOutcomes ==
    { [ok |-> TRUE, message |-> <<>>],
      [ok |-> FALSE, message |-> NoActivityMessage],
      [ok |-> FALSE, message |-> OtherFailureMessage] }

\* Platform.OS
Platforms == {"android", "ios"}

\* e.message.match(/no activity found to handle intent/i): the pattern occurs
\* somewhere in the message, letter case aside
MatchesNoActivity(message) ==
    \E i \in 1..(Len(message) + 1 - Len(NoActivityPattern)) :
        \A j \in 1..Len(NoActivityPattern) :
            Lower(message[i + j - 1]) = Lower(NoActivityPattern[j])

\* onError's choice of message
OpenErrorMessage(platformOS, e) ==
    IF platformOS = "android" /\ MatchesNoActivity(e)
    THEN FailedToOpenNoBrowser
    ELSE FailedToOpen

\* what the screen shows: loginError || error
DisplayedError == IF loginError # "" THEN loginError ELSE error

\* a React state setter does nothing once the component has unmounted
SetState(old, new) == IF mounted THEN new ELSE old

\* the scheme of the other build flavour: a near miss of the expected prefix
OtherBuildScheme == IF isBetaApp THEN "mmauth://" ELSE "mmauth-beta://"

\* the URL-open events the platform may deliver: four callback URLs of this
\* build (both tokens, challenge token only, all three, bearer token only, both
\* tokens with the text "undefined" as bearer token), a callback URL of the
\* other build and a foreign URL
Urls ==
    { <<customUrlScheme, "callback", "?", "MMAUTHTOKEN", "tok1", "MMCSRF", "csrf1">>,
      <<customUrlScheme, "callback", "?", "MMCHALLENGETOKEN", "chal1">>,
      <<customUrlScheme, "callback", "?", "MMAUTHTOKEN", "tok1", "MMCSRF", "csrf1",
        "MMCHALLENGETOKEN", "chal1">>,
      <<customUrlScheme, "callback", "?", "MMAUTHTOKEN", "tok1">>,
      <<customUrlScheme, "callback", "?", "MMAUTHTOKEN", "undefined", "MMCSRF", "csrf1">>,
      <<OtherBuildScheme, "callback", "?", "MMAUTHTOKEN", "tok1", "MMCSRF", "csrf1">>,
      <<"other-scheme://", "foo">> }

\* what fetchSessionTokenFromCodeChallenge may resolve to
ExchangeResponses ==
    { [token |-> Str("tok2"), csrf |-> Str("csrf2")],
      [token |-> Str(""), csrf |-> Str("")],
      [error |-> "exchange failed"] }

\* no response (the step awaited no exchange)
NoResponse == [none |-> TRUE]

\* s without its i-th element
Remove(s, i) == SubSeq(s, 1, i - 1) \o SubSeq(s, i + 1, Len(s))

\* the record of a step that made no call
Obs(op) ==
    [op |-> op,
     url |-> <<>>,             \* the URL delivered, or the one the handler was given
     outcome |-> "none",       \* of onURLChange: dropped, ignored, pending, login, error;
                               \* of Linking.openURL: opened, openFailed
     exchanged |-> FALSE,      \* fetchSessionTokenFromCodeChallenge was called
     exVerifier |-> NoVerifier,\* ... with this verifier
     response |-> NoResponse,  \* what the awaited exchange resolved to
     bearer |-> Undef,         \* the arguments of doSSOLogin
     csrf |-> Undef,
     again |-> FALSE,          \* ... and not for the first time under the stored verifier
     opened |-> FALSE,         \* tryOpenURL was called
     challenge |-> urlSafeBase64Encode(Sha256(NoVerifier)), \* ... with this code_challenge
     escaped |-> FALSE]        \* a rejection left init unhandled

---------------------------------------------------------------------------
(* The listener effect: useEffect(..., [codeVerifier]) *)

\* a variant of the cleanup that leaves the registration in place
KeepListener(l) == l

\* the effect's cleanup: listener.remove()
RemoveListener(l) == [l EXCEPT !.registered = FALSE]

\* Linking.addEventListener('url', onURLChange), onURLChange closing over v
AddListener(v) == [registered |-> TRUE, verifier |-> v]

\* a variant that exchanges whenever a challenge token is present
ExchangeOnChallengeAlone(codeChallengeToken, verifier) == Truthy(codeChallengeToken)

\* a variant that exchanges whenever a verifier is held
ExchangeOnVerifierAlone(codeChallengeToken, verifier) == TruthyVerifier(verifier)

\* if (codeChallengeToken && codeVerifier)
ShouldExchange(codeChallengeToken, verifier) ==
    Truthy(codeChallengeToken) /\ TruthyVerifier(verifier)

\* if (bearerToken && csrfToken)
HasTokenPair(bearerToken, csrfToken) == Truthy(bearerToken) /\ Truthy(csrfToken)

\* the tail of onURLChange (lines 132-141): doSSOLogin or setError
Finish(o, bearerToken, csrfToken) ==
    IF HasTokenPair(bearerToken, csrfToken)
    THEN /\ obs' = [o EXCEPT !.outcome = "login", !.bearer = bearerToken,
                             !.csrf = csrfToken,
                             !.again = codeVerifier \in loggedIn]
         /\ loggedIn' = loggedIn \cup {codeVerifier}
         /\ error' = error
    ELSE /\ obs' = [o EXCEPT !.outcome = "error"]
         /\ loggedIn' = loggedIn
         /\ error' = SetState(error, FailedToLogin)

\* the platform delivers a URL-open event; the registered listener, if any,
\* runs onURLChange up to its await or to its end
URLEvent(url) ==
    /\ delivered < MaxEvents
    /\ delivered' = delivered + 1
    /\ LET o == [Obs("url") EXCEPT !.url = url]
           bearerToken == QueryGet(url, "MMAUTHTOKEN")
           csrfToken == QueryGet(url, "MMCSRF")
           codeChallengeToken == QueryGet(url, "MMCHALLENGETOKEN")
       IN IF ~listener.registered
          THEN /\ obs' = [o EXCEPT !.outcome = "dropped"]
               /\ UNCHANGED <<error, pending, loggedIn>>
          ELSE IF ~Matches(url)
          THEN /\ obs' = [o EXCEPT !.outcome = "ignored"]
               /\ UNCHANGED <<error, pending, loggedIn>>
          ELSE IF ShouldExchange(codeChallengeToken, listener.verifier)
          THEN /\ obs' = [o EXCEPT !.outcome = "pending", !.exchanged = TRUE,
                                   !.exVerifier = listener.verifier]
               /\ pending' = Append(pending,
                                [url |-> url, verifier |-> listener.verifier])
               /\ UNCHANGED <<error, loggedIn>>
          ELSE /\ Finish(o, bearerToken, csrfToken)
               /\ UNCHANGED pending
    /\ UNCHANGED <<mountLoginError, loginError,
                   codeVerifier, listener, timer, mounted, started, inits>>

\* fetchSessionTokenFromCodeChallenge resolves; onURLChange resumes
ExchangeDone(i, response) ==
    /\ i \in DOMAIN pending
    /\ pending' = Remove(pending, i)
    /\ LET url == pending[i].url
           hasToken == "token" \in DOMAIN response
           bearerToken == IF hasToken THEN response.token
                          ELSE QueryGet(url, "MMAUTHTOKEN")
           csrfToken == IF hasToken THEN response.csrf
                        ELSE QueryGet(url, "MMCSRF")
           o == [Obs("exchangeDone") EXCEPT !.url = url, !.response = response,
                                            !.exVerifier = pending[i].verifier]
       IN Finish(o, bearerToken, csrfToken)
    /\ UNCHANGED <<mountLoginError, loginError,
                   codeVerifier, listener, timer, mounted, started, inits,
                   delivered>>

\* React re-runs the listener effect after a render in which codeVerifier
\* changed: the old registration is removed and a new one closes over the
\* stored verifier
ListenerEffect ==
    /\ mounted
    /\ listener.verifier # codeVerifier
    /\ listener' = AddListener(codeVerifier)
    /\ obs' = Obs("effect")
    /\ UNCHANGED <<mountLoginError, loginError, error,
                   codeVerifier, timer, mounted, started, inits, delivered,
                   pending, loggedIn>>

---------------------------------------------------------------------------
(* init *)

\* a variant of the timer callback that calls init() with the default argument
AutoAttemptResetsErrors == TRUE

\* the argument of the timer's init(false)
AutoAttemptResetErrors == FALSE

\* init(resetErrors) up to its first await (NetworkManager.createClient, called
\* with the reset, touches no state of this screen)
InitStart(resetErrors) ==
    /\ started < MaxInits
    /\ started' = started + 1
    /\ error' = IF resetErrors # FALSE THEN SetState(error, "") ELSE error
    /\ loginError' = IF resetErrors # FALSE THEN "" ELSE loginError
    /\ inits' = Append(inits, [id |-> started + 1, pc |-> "gen",
                               verifier |-> NoVerifier])

\* the timeout of the auto-attempt effect fires: init(false)
TimerFire ==
    /\ mounted
    /\ timer = "pending"
    /\ timer' = "fired"
    /\ InitStart(AutoAttemptResetErrors)
    /\ obs' = Obs("timer")
    /\ UNCHANGED <<mountLoginError, codeVerifier,
                   listener, mounted, delivered, pending, loggedIn>>

\* the user presses "Try again", shown only with an error displayed: init()
TryAgain ==
    /\ mounted
    /\ DisplayedError # ""
    /\ InitStart(TRUE)
    /\ obs' = Obs("tryAgain")
    /\ UNCHANGED <<mountLoginError, codeVerifier,
                   listener, timer, mounted, delivered, pending, loggedIn>>

\* generateSecureRandom resolves: setCodeVerifier(verifier), then sha256 is awaited
InitVerifier(i) ==
    /\ i \in DOMAIN inits
    /\ inits[i].pc = "gen"
    /\ inits' = [inits EXCEPT ![i].pc = "hash", ![i].verifier = Verifier(inits[i].id)]
    /\ codeVerifier' = SetState(codeVerifier, Verifier(inits[i].id))
    /\ obs' = Obs("verifier")
    /\ UNCHANGED <<mountLoginError, loginError, error,
                   listener, timer, mounted, started, delivered, pending,
                   loggedIn>>

\* generateSecureRandom or sha256 rejects: init has no catch, its promise rejects
InitReject(i) ==
    /\ i \in DOMAIN inits
    /\ inits[i].pc \in {"gen", "hash"}
    /\ inits' = Remove(inits, i)
    /\ obs' = [Obs("reject") EXCEPT !.escaped = TRUE]
    /\ UNCHANGED <<mountLoginError, loginError, error,
                   codeVerifier, listener, timer, mounted, started, delivered,
                   pending, loggedIn>>

\* sha256 resolves: the login URL is built and tryOpenURL(url, onError) is called
InitOpen(i) ==
    /\ i \in DOMAIN inits
    /\ inits[i].pc = "hash"
    /\ inits' = [inits EXCEPT ![i].pc = "opening"]
    /\ obs' = [Obs("open") EXCEPT
                 !.opened = TRUE,
                 !.challenge = BuildLoginUrl(Sha256(inits[i].verifier)).query["code_challenge"]]
    /\ UNCHANGED <<mountLoginError, loginError, error,
                   codeVerifier, listener, timer, mounted, started, delivered,
                   pending, loggedIn>>

\* Linking.openURL settles; on failure onError sets the error text
OpenSettled(i, platformOS, outcome) ==
    /\ i \in DOMAIN inits
    /\ inits[i].pc = "opening"
    /\ inits' = Remove(inits, i)
    /\ error' = IF outcome.ok THEN error
                ELSE SetState(error, OpenErrorMessage(platformOS, outcome.message))
    /\ obs' = [Obs("openSettled") EXCEPT
                 !.outcome = IF outcome.ok THEN "opened" ELSE "openFailed"]
    /\ UNCHANGED <<mountLoginError, loginError,
                   codeVerifier, listener, timer, mounted, started, delivered,
                   pending, loggedIn>>

---------------------------------------------------------------------------
(* Unmount: both effects' cleanups run *)

Unmount ==
    /\ mounted
    /\ mounted' = FALSE
    /\ listener' = RemoveListener(listener)
    /\ timer' = IF timer = "pending" THEN "cleared" ELSE timer
    /\ obs' = Obs("unmount")
    /\ UNCHANGED <<mountLoginError, loginError, error,
                   codeVerifier, started, inits, delivered, pending, loggedIn>>

---------------------------------------------------------------------------
(* The specification *)

\* the screen just mounted: both effects have run once
Init ==
    /\ mountLoginError \in {"", "SSO login failed"}
    /\ loginError = mountLoginError
    /\ error = ""
    /\ codeVerifier = NoVerifier
    /\ listener = AddListener(NoVerifier)
    /\ timer = "pending"
    /\ mounted = TRUE
    /\ started = 0
    /\ inits = <<>>
    /\ delivered = 0
    /\ pending = <<>>
    /\ loggedIn = {}
    /\ obs = Obs("mount")

Next ==
    \/ \E url \in Urls : URLEvent(url)
    \/ \E i \in 1..MaxEvents, r \in ExchangeResponses : ExchangeDone(i, r)
    \/ ListenerEffect
    \/ TimerFire
    \/ TryAgain
    \/ \E i \in 1..MaxInits : InitVerifier(i)
    \/ \E i \in 1..MaxInits : InitReject(i)
    \/ \E i \in 1..MaxInits : InitOpen(i)
    \/ \E i \in 1..MaxInits, os \in Platforms, o \in OpenOutcomes :
          OpenSettled(i, os, o)
    \/ Unmount

Spec == Init /\ [][Next]_vars

---------------------------------------------------------------------------
(* Properties *)

\* the URL's query carries a non-empty value for the key
Carries(url, key) == QueryGet(url, key) \notin {Undef, Str("")}

\* the URL carries a challenge token and neither MMAUTHTOKEN nor MMCSRF
OnlyChallenge(url) ==
    /\ Carries(url, "MMCHALLENGETOKEN")
    /\ QueryGet(url, "MMAUTHTOKEN") = Undef
    /\ QueryGet(url, "MMCSRF") = Undef

\* the most recent step delivered a URL that starts with redirectUrl while
\* the screen was mounted
MatchingEvent ==
    /\ obs.op = "url"
    /\ mounted
    /\ obs.url # <<>>
    /\ StartsWith(obs.url, redirectUrl)

\* the code_challenge that belongs to the stored verifier
StoredChallenge == urlSafeBase64Encode(Sha256(codeVerifier))

\* C1: under one stored verifier (one flow attempt) doSSOLogin is invoked at
\* most once: no later callback URL of that attempt invokes it again.
C1_LoginOncePerAttempt ==
    ~(obs.outcome = "login" /\ obs.again /\ codeVerifier # NoVerifier)

\* C2: whenever fetchSessionTokenFromCodeChallenge is called, the verifier
\* passed is the one most recently stored by setCodeVerifier.
C2_ExchangeUsesStoredVerifier ==
    obs.exchanged => obs.exVerifier = codeVerifier

\* C3 as stated: every matching callback URL that carries only a challenge
\* token, at whatever point of the flow, invokes the exchange with the
\* stored verifier.
C3_ChallengeAlwaysExchanged ==
    (MatchingEvent /\ OnlyChallenge(obs.url)) =>
        (obs.exchanged /\ obs.exVerifier = codeVerifier)

\* C3 amended: a matching callback URL that carries only a challenge token
\* invokes the exchange exactly when the registered listener closed over a
\* verifier, and then with that verifier; without one no exchange is made, the
\* error text is set and doSSOLogin is not called.  When the exchange resolves
\* with a token and csrf, doSSOLogin is called with them; otherwise the error
\* text is set and doSSOLogin is not called.
C3_ChallengeExchange ==
    /\ (MatchingEvent /\ OnlyChallenge(obs.url)) =>
          IF listener.verifier # NoVerifier
          THEN /\ obs.exchanged
               /\ obs.exVerifier = listener.verifier
               /\ obs.outcome = "pending"
               /\ \E i \in DOMAIN pending :
                     pending[i] = [url |-> obs.url, verifier |-> listener.verifier]
          ELSE /\ ~obs.exchanged
               /\ obs.outcome = "error"
               /\ error = FailedToLogin
    /\ (obs.op = "exchangeDone" /\ OnlyChallenge(obs.url)) =>
          IF /\ "token" \in DOMAIN obs.response
             /\ obs.response.token # Str("")
             /\ obs.response.csrf # Str("")
          THEN /\ obs.outcome = "login"
               /\ obs.bearer = obs.response.token
               /\ obs.csrf = obs.response.csrf
          ELSE /\ obs.outcome = "error"
               /\ obs.bearer = Undef
               /\ mounted => error = FailedToLogin

\* C3 witness: a challenge-only callback was exchanged with the verifier of the
\* first attempt and the returned pair was handed to doSSOLogin.
C3_Witness ==
    /\ obs.op = "exchangeDone"
    /\ OnlyChallenge(obs.url)
    /\ obs.exVerifier = Verifier(1)
    /\ obs.outcome = "login"
    /\ obs.bearer = Str("tok2")
    /\ obs.csrf = Str("csrf2")

\* C4 as stated: every matching callback URL with both MMAUTHTOKEN and MMCSRF
\* calls doSSOLogin with those two values and never invokes the exchange,
\* whatever else the URL carries and whether or not a verifier is held.
C4_DirectNeverExchanged ==
    (MatchingEvent /\ Carries(obs.url, "MMAUTHTOKEN") /\ Carries(obs.url, "MMCSRF")) =>
        /\ ~obs.exchanged
        /\ obs.outcome = "login"
        /\ obs.bearer = QueryGet(obs.url, "MMAUTHTOKEN")
        /\ obs.csrf = QueryGet(obs.url, "MMCSRF")

\* C4 amended: a matching callback URL with both MMAUTHTOKEN and MMCSRF calls
\* doSSOLogin with those two values, without invoking the exchange, provided
\* the URL carries no MMCHALLENGETOKEN or the listener closed over no verifier.
C4_DirectTokens ==
    ( /\ MatchingEvent
      /\ Carries(obs.url, "MMAUTHTOKEN")
      /\ Carries(obs.url, "MMCSRF")
      /\ ~(Carries(obs.url, "MMCHALLENGETOKEN") /\ listener.verifier # NoVerifier) ) =>
        /\ ~obs.exchanged
        /\ obs.outcome = "login"
        /\ obs.bearer = QueryGet(obs.url, "MMAUTHTOKEN")
        /\ obs.csrf = QueryGet(obs.url, "MMCSRF")
        /\ codeVerifier \in loggedIn

\* C4 witness: a direct-token callback arrived while the listener held a
\* verifier, and doSSOLogin was called with the URL's tokens.
C4_Witness ==
    /\ MatchingEvent
    /\ ~Carries(obs.url, "MMCHALLENGETOKEN")
    /\ listener.verifier # NoVerifier
    /\ obs.outcome = "login"
    /\ obs.bearer = Str("tok1")
    /\ obs.csrf = Str("csrf1")

\* C5: a URL-open event delivered after the screen has unmounted reaches no
\* listener: it invokes neither doSSOLogin nor the exchange and sets no error.
C5_NoListenerAfterTeardown ==
    (obs.op = "url" /\ ~mounted) =>
        /\ obs.outcome = "dropped"
        /\ ~obs.exchanged
        /\ obs.bearer = Undef

\* C5 witness: after a retry re-registered the listener with the second
\* verifier and the screen unmounted, a matching direct-token URL arrived.
C5_Witness ==
    /\ obs.op = "url"
    /\ ~mounted
    /\ StartsWith(obs.url, redirectUrl)
    /\ Carries(obs.url, "MMAUTHTOKEN")
    /\ Carries(obs.url, "MMCSRF")
    /\ listener.verifier = Verifier(2)

\* a failure of the flow: a rejection inside init, the browser failing to
\* open, or a matched callback that ended without a usable token pair
FailureObserved ==
    \/ obs.op = "reject"
    \/ (obs.op = "openSettled" /\ obs.outcome = "openFailed")
    \/ obs.outcome = "error"

\* C6: every failure of an attempt stays inside the component and ends in a
\* non-empty displayed error text.
C6_FailuresEndInErrorText ==
    (mounted /\ FailureObserved) => (~obs.escaped /\ DisplayedError # "")

\* C7: a URL-open event whose URL does not start with redirectUrl invokes
\* neither doSSOLogin nor the exchange and changes neither the error state,
\* the stored verifier nor the listener registration.
C7_NonMatchingIgnored ==
    [][ (delivered' = delivered + 1 /\ ~StartsWith(obs'.url, redirectUrl)) =>
           /\ obs'.outcome \in {"ignored", "dropped"}
           /\ ~obs'.exchanged
           /\ obs'.bearer = Undef
           /\ error' = error
           /\ loginError' = loginError
           /\ codeVerifier' = codeVerifier
           /\ listener' = listener
           /\ pending' = pending
           /\ loggedIn' = loggedIn ]_vars

\* C7 witness: the registered listener was handed a URL of the other scheme
\* that carries both tokens.
C7_Witness ==
    /\ obs.op = "url"
    /\ listener.registered
    /\ ~StartsWith(obs.url, redirectUrl)
    /\ Carries(obs.url, "MMAUTHTOKEN")
    /\ Carries(obs.url, "MMCSRF")
    /\ obs.outcome = "ignored"

\* C8: whenever a login URL is opened, its code_challenge is the challenge of
\* the verifier stored at that moment.
C8_OpenedUrlBelongsToStoredVerifier ==
    (mounted /\ obs.opened) => obs.challenge = StoredChallenge

\* C9 as stated: the automatic attempt is started only when the screen was
\* mounted without a loginError.
C9_AutoAttemptOnlyWithoutLoginError ==
    timer = "fired" => mountLoginError = ""

\* C9 amended: the automatic attempt is scheduled at mount whatever loginError
\* is; the timer leaves "pending" once only, either by firing on the mounted
\* screen, which starts one init(false) that leaves error and loginError as
\* they are, or by being cleared at unmount.
C9_AutoAttempt ==
    [][ timer' # timer =>
           /\ timer = "pending"
           /\ \/ /\ timer' = "fired"
                 /\ mounted /\ mounted'
                 /\ started' = started + 1
                 /\ Len(inits') = Len(inits) + 1
                 /\ error' = error
                 /\ loginError' = loginError
              \/ /\ timer' = "cleared"
                 /\ mounted /\ ~mounted'
                 /\ started' = started ]_vars

\* C9 witness: the screen was mounted with a loginError, the timer fired and
\* the browser was opened while that loginError was still displayed (no Try
\* again was pressed: it would have cleared it).
C9_Witness ==
    /\ mountLoginError # ""
    /\ loginError = mountLoginError
    /\ timer = "fired"
    /\ started = 1
    /\ obs.opened

\* C10: once the screen has unmounted, doSSOLogin is not invoked and the
\* browser is not opened.
C10_NoActionAfterUnmount ==
    ~mounted => (obs.outcome # "login" /\ ~obs.opened)

====
